---- MODULE Spec2Model ----
(***************************************************************************)
(* The orchestration service of webrtc-hello-world-ts (src/server.ts):     *)
(* five HTTP handlers over two module-level variables, sessionId and       *)
(* calls, and the vendor platform they talk to.                            *)
(*                                                                         *)
(* A handler runs without interruption from one await on a vendor request  *)
(* to the next (Node's single thread: a continuation and the microtasks it *)
(* queues finish before the next I/O callback), so an action is the code   *)
(* between two vendor awaits.  /connectionInfo, /incomingCall and          *)
(* /callPhone await the vendor and occupy a request slot while they do;    *)
(* /callAnswered and /callStatus await nothing and need none.              *)
(*                                                                         *)
(* Spec is the service with every route; SessionSpec is the service with   *)
(* browsers only, which leaves room for a third concurrent request; and    *)
(* ClientSpec adds the browser of frontend/src/App.tsx to SessionSpec.     *)
(***************************************************************************)
EXTENDS Integers, FiniteSets, Sequences, TLC

\* Bounds of the model.
NumReq == 2        \* requests that provision a participant
MaxCalls == 2      \* call identifiers the telephony platform uses
NumBrowsers == 3   \* /connectionInfo requests, where only browsers connect

\* The request slots, and those each specification takes.
Procs == 1..(IF NumReq > NumBrowsers THEN NumReq ELSE NumBrowsers)
Reqs == 1..NumReq
Browsers == 1..NumBrowsers
CallIds == 1..MaxCalls

VARIABLES
    outboundPhoneNumber, \* TRUE iff USER_NUMBER is set (server.ts:32)
    sessionId,           \* the cached session id, 0 while unset (server.ts:59)
    calls,               \* call id -> ParticipantInfo, NoParticipant if absent (server.ts:60)
    pc,                  \* where each provisioning request's handler stands
    kind,                \* its route
    callId,              \* its req.body.callId, or the id createCall returned
    participant,         \* its ParticipantInfo
    sid,                 \* its session id: asked about, then createParticipant's local
    responded,           \* whether its response has been sent already
    sessions,            \* vendor: session ids created
    members,             \* vendor: <<participant id, session id>> added
    inboundCalls,        \* vendor: call ids of inbound calls announced
    outboundCalls,       \* vendor: call ids of calls it originated
    createCallRequests,  \* vendor: call-origination requests received
    deleteRequests,      \* vendor: participant id -> deletion requests received
    deletePending,       \* vendor: deletion requests not yet answered
    deleted,             \* vendor: participants deleted
    sessionCheckFailed,  \* history: some getSession validity check failed
    disconnected,        \* history: calls whose disconnect notification was processed
    handedOut,           \* history: tokens that a response has carried
    overwritten,         \* history: participants whose entry calls.set replaced
    forBrowser,          \* history: participants created for /connectionInfo
    fetchReq,            \* browser: the slot of its fetch("/connectionInfo"), 0 before
    clientToken,         \* browser: the state variable token (App.tsx:11)
    effectPending,       \* browser: the effect on [token] is due to run
    connectState,        \* browser: bandwidthRtc.connect: none, pending, connected, failed
    deviceToken,         \* browser: the deviceToken connect was called with
    publishState,        \* browser: bandwidthRtc.publish: none, pending, published, failed
    last                 \* what the handler that ran in the latest step did

handlerVars == <<pc, kind, callId, participant, sid, responded>>
vendorVars == <<sessions, members, inboundCalls, outboundCalls, createCallRequests,
                deleteRequests, deletePending, deleted>>
clientVars == <<fetchReq, clientToken, effectPending, connectState, deviceToken,
                publishState>>
serverVars == <<outboundPhoneNumber, sessionId, calls, handlerVars, vendorVars,
                sessionCheckFailed, disconnected, handedOut, overwritten,
                forBrowser>>
vars == <<serverVars, clientVars, last>>

\* interface ParticipantInfo { id; token }.  The vendor's identifiers are unique:
\* the participant created for request k is named after k, and so is the
\* session created for it.
ParticipantInfo(k) == [id |-> <<"participant", k>>, token |-> <<"token", k>>]
NoParticipant == ParticipantInfo(0)
ParticipantIds == {ParticipantInfo(k).id : k \in Procs}

NoBody == [markup |-> "none", token |-> NoParticipant.token, callId |-> 0]

\* res.send({token, ...}) of /connectionInfo.
ConnectionInfoBody(token) == [markup |-> "json", token |-> token, callId |-> 0]
\* WebRtcController.generateTransferBxml(token, callId).
generateTransferBxml(token, c) == [markup |-> "transfer", token |-> token, callId |-> c]
\* <SpeakSentence> followed by generateTransferBxmlVerb(token, callId).
SpeakAndTransferBxml(token, c) ==
    [markup |-> "speak+transfer", token |-> token, callId |-> c]

\* What a step of a handler did: the route, the call it was about, the status
\* and body it sent (status 0: nothing sent), the participant it provisioned,
\* looked up or removed, and for /callStatus the event type, how far the
\* handler is, and whether it directly follows the response of /incomingCall
\* to the same call.
NoEvent ==
    [kind |-> "none", req |-> 0, callId |-> 0, eventType |-> "none", status |-> 0,
     body |-> NoBody, participant |-> NoParticipant, phase |-> "none",
     follows |-> FALSE]

Event(k, p, c, st, b, part) ==
    [NoEvent EXCEPT !.kind = k, !.req = p, !.callId = c, !.status = st, !.body = b,
                    !.participant = part, !.phase = "done"]

Init ==
    /\ outboundPhoneNumber \in BOOLEAN
    /\ sessionId = 0
    /\ calls = [c \in CallIds |-> NoParticipant]
    /\ pc = [p \in Procs |-> "idle"]
    /\ kind = [p \in Procs |-> "none"]
    /\ callId = [p \in Procs |-> 0]
    /\ participant = [p \in Procs |-> NoParticipant]
    /\ sid = [p \in Procs |-> 0]
    /\ responded = [p \in Procs |-> FALSE]
    /\ sessions = {}
    /\ members = {}
    /\ inboundCalls = {}
    /\ outboundCalls = {}
    /\ createCallRequests = 0
    /\ deleteRequests = [i \in ParticipantIds |-> 0]
    /\ deletePending = {}
    /\ deleted = {}
    /\ sessionCheckFailed = FALSE
    /\ disconnected = {}
    /\ handedOut = {}
    /\ overwritten = {}
    /\ forBrowser = {}
    /\ fetchReq = 0
    /\ clientToken = NoParticipant.token
    /\ effectPending = FALSE
    /\ connectState = "none"
    /\ deviceToken = NoParticipant.token
    /\ publishState = "none"
    /\ last = NoEvent

\* /callStatus has responded and its synchronous rest has yet to run: nothing
\* else runs in between.
NoSyncPending == last.phase # "responded"

\* A provisioning request arrives and takes slot p; the slots are taken in order.
Arrives(p) ==
    /\ NoSyncPending
    /\ pc[p] = "idle"
    /\ \A q \in Procs : q < p => pc[q] # "idle"

\* The vendor's answer to the request the handler of p awaits at `at` has come.
Resumes(p, at) == NoSyncPending /\ pc[p] = at

\* The handler of p has ended, by returning or by a rejected promise: its
\* locals are gone.
Ends(p) ==
    /\ pc' = [pc EXCEPT ![p] = "done"]
    /\ kind' = [kind EXCEPT ![p] = "none"]
    /\ callId' = [callId EXCEPT ![p] = 0]
    /\ participant' = [participant EXCEPT ![p] = NoParticipant]
    /\ sid' = [sid EXCEPT ![p] = 0]
    /\ responded' = [responded EXCEPT ![p] = FALSE]

\* The handler of p ends with a rejected promise and sends nothing.
Rejects(p) ==
    /\ Ends(p)
    /\ last' = Event(kind[p], p, callId[p], 0, NoBody, participant[p])

----------------------------------------------------------------------------
\* createParticipant and getSessionId (server.ts:179-246)

\* createParticipant up to its first await: the request to the vendor is sent.
createParticipant(p) == pc' = [pc EXCEPT ![p] = "createParticipant"]

\* getSessionId up to its first await: with a session cached the validity
\* check of that session is sent, otherwise the creation of a session.
getSessionId(p) ==
    IF sessionId # 0
    THEN /\ sid' = [sid EXCEPT ![p] = sessionId]
         /\ pc' = [pc EXCEPT ![p] = "getSession"]
    ELSE /\ sid' = sid
         /\ pc' = [pc EXCEPT ![p] = "createSession"]

\* The vendor created the participant; createParticipant goes on to getSessionId.
CreateParticipantOk(p) ==
    /\ Resumes(p, "createParticipant")
    /\ participant' = [participant EXCEPT ![p] = ParticipantInfo(p)]
    /\ getSessionId(p)
    /\ forBrowser' = IF kind[p] = "connectionInfo"
                     THEN forBrowser \cup {ParticipantInfo(p).id} ELSE forBrowser
    /\ last' = NoEvent
    /\ UNCHANGED <<outboundPhoneNumber, sessionId, calls, kind, callId, responded,
                   vendorVars, sessionCheckFailed, disconnected, handedOut,
                   overwritten, clientVars>>

\* The vendor's request failed, or its response lacks the token or the id:
\* createParticipant throws.
CreateParticipantFail(p) ==
    /\ Resumes(p, "createParticipant")
    /\ Rejects(p)
    /\ UNCHANGED <<outboundPhoneNumber, sessionId, calls, vendorVars,
                   sessionCheckFailed, disconnected, handedOut, overwritten,
                   forBrowser, clientVars>>

\* getSession succeeded: the id in its result, the one asked about, is
\* returned and the cache is left alone.
GetSessionOk(p) ==
    /\ Resumes(p, "getSession")
    /\ pc' = [pc EXCEPT ![p] = "addParticipantToSession"]
    /\ last' = NoEvent
    /\ UNCHANGED <<outboundPhoneNumber, sessionId, calls, kind, callId, participant,
                   sid, responded, vendorVars, sessionCheckFailed, disconnected,
                   handedOut, overwritten, forBrowser, clientVars>>

\* getSession failed (the session is gone, or any other error): the error is
\* caught and a new session is asked for.
GetSessionFail(p) ==
    /\ Resumes(p, "getSession")
    /\ pc' = [pc EXCEPT ![p] = "createSession"]
    /\ sessionCheckFailed' = TRUE
    /\ last' = NoEvent
    /\ UNCHANGED <<outboundPhoneNumber, sessionId, calls, kind, callId, participant,
                   sid, responded, vendorVars, disconnected, handedOut, overwritten,
                   forBrowser, clientVars>>

\* createSession succeeded, and the cache keeps the id written first.
CreateSessionOk_FirstWriterWins(p) ==
    /\ Resumes(p, "createSession")
    /\ sessions' = sessions \cup {p}
    /\ sessionId' = IF sessionId = 0 THEN p ELSE sessionId
    /\ sid' = [sid EXCEPT ![p] = p]
    /\ pc' = [pc EXCEPT ![p] = "addParticipantToSession"]
    /\ last' = NoEvent
    /\ UNCHANGED <<outboundPhoneNumber, calls, kind, callId, participant, responded,
                   members, inboundCalls, outboundCalls, createCallRequests,
                   deleteRequests, deletePending, deleted, sessionCheckFailed,
                   disconnected, handedOut, overwritten, forBrowser, clientVars>>

\* createSession succeeded, and getSessionId returns the id it asked about
\* before instead of the new one.
CreateSessionOk_ReturnsAsked(p) ==
    /\ Resumes(p, "createSession")
    /\ sessions' = sessions \cup {p}
    /\ sessionId' = p
    /\ sid' = [sid EXCEPT ![p] = IF sid[p] # 0 THEN sid[p] ELSE p]
    /\ pc' = [pc EXCEPT ![p] = "addParticipantToSession"]
    /\ last' = NoEvent
    /\ UNCHANGED <<outboundPhoneNumber, calls, kind, callId, participant, responded,
                   members, inboundCalls, outboundCalls, createCallRequests,
                   deleteRequests, deletePending, deleted, sessionCheckFailed,
                   disconnected, handedOut, overwritten, forBrowser, clientVars>>

\* createSession succeeded: the new id overwrites the cache and is returned.
CreateSessionOk(p) ==
    /\ Resumes(p, "createSession")
    /\ sessions' = sessions \cup {p}
    /\ sessionId' = p
    /\ sid' = [sid EXCEPT ![p] = p]
    /\ pc' = [pc EXCEPT ![p] = "addParticipantToSession"]
    /\ last' = NoEvent
    /\ UNCHANGED <<outboundPhoneNumber, calls, kind, callId, participant, responded,
                   members, inboundCalls, outboundCalls, createCallRequests,
                   deleteRequests, deletePending, deleted, sessionCheckFailed,
                   disconnected, handedOut, overwritten, forBrowser, clientVars>>

\* createSession failed, or its response has no id: getSessionId throws.
CreateSessionFail(p) ==
    /\ Resumes(p, "createSession")
    /\ Rejects(p)
    /\ UNCHANGED <<outboundPhoneNumber, sessionId, calls, vendorVars,
                   sessionCheckFailed, disconnected, handedOut, overwritten,
                   forBrowser, clientVars>>

\* The vendor added the participant to the session createParticipant named.
addParticipantToSession(p) ==
    members' = members \cup {<<participant[p].id, sid[p]>>}

\* addParticipantToSession failed, and createParticipant requests the
\* deletion of the participant it had created before it throws.
AddParticipantFail_Rollback(p) ==
    /\ Resumes(p, "addParticipantToSession")
    /\ Rejects(p)
    /\ deleteRequests' = [deleteRequests EXCEPT ![participant[p].id] = @ + 1]
    /\ deletePending' = deletePending \cup {participant[p].id}
    /\ UNCHANGED <<outboundPhoneNumber, sessionId, calls, sessions, members,
                   inboundCalls, outboundCalls, createCallRequests, deleted,
                   sessionCheckFailed, disconnected, handedOut, overwritten,
                   forBrowser, clientVars>>

\* addParticipantToSession failed: createParticipant throws.
AddParticipantFail(p) ==
    /\ Resumes(p, "addParticipantToSession")
    /\ Rejects(p)
    /\ UNCHANGED <<outboundPhoneNumber, sessionId, calls, vendorVars,
                   sessionCheckFailed, disconnected, handedOut, overwritten,
                   forBrowser, clientVars>>

----------------------------------------------------------------------------
\* The handlers (server.ts:74-158) and callPhone (server.ts:260-277)

\* GET /connectionInfo arrives: createParticipant is called.
ConnectionInfo(p) ==
    /\ Arrives(p)
    /\ kind' = [kind EXCEPT ![p] = "connectionInfo"]
    /\ createParticipant(p)
    /\ last' = NoEvent
    /\ UNCHANGED <<outboundPhoneNumber, sessionId, calls, callId, participant, sid,
                   responded, vendorVars, sessionCheckFailed, disconnected, handedOut,
                   overwritten, forBrowser, clientVars>>

\* createParticipant returned to /connectionInfo: the token is sent.
ConnectionInfoSend(p) ==
    /\ Resumes(p, "addParticipantToSession")
    /\ kind[p] = "connectionInfo"
    /\ addParticipantToSession(p)
    /\ last' = Event("connectionInfo", p, 0, 200,
                     ConnectionInfoBody(participant[p].token), participant[p])
    /\ Ends(p)
    /\ handedOut' = handedOut \cup {participant[p].token}
    /\ UNCHANGED <<outboundPhoneNumber, sessionId, calls, sessions, inboundCalls,
                   outboundCalls, createCallRequests, deleteRequests, deletePending,
                   deleted, sessionCheckFailed, disconnected, overwritten,
                   forBrowser, clientVars>>

\* POST /incomingCall arrives for call c, which the telephony platform has
\* not reported as ended: createParticipant is called.
IncomingCall(p, c) ==
    /\ Arrives(p)
    /\ c \notin outboundCalls \cup disconnected
    /\ inboundCalls' = inboundCalls \cup {c}
    /\ kind' = [kind EXCEPT ![p] = "incomingCall"]
    /\ callId' = [callId EXCEPT ![p] = c]
    /\ createParticipant(p)
    /\ last' = NoEvent
    /\ UNCHANGED <<outboundPhoneNumber, sessionId, calls, participant, sid, responded,
                   sessions, members, outboundCalls, createCallRequests,
                   deleteRequests, deletePending, deleted, sessionCheckFailed,
                   disconnected, handedOut, overwritten, forBrowser, clientVars>>

\* calls.set(c, part): an entry c has already is replaced.
callsSet(c, part) ==
    /\ calls' = [calls EXCEPT ![c] = part]
    /\ overwritten' = overwritten \cup ({calls[c].id} \ {NoParticipant.id, part.id})

\* /incomingCall that registers every participant under one and the same key.
IncomingCallTransfer_OneKey(p) ==
    /\ Resumes(p, "addParticipantToSession")
    /\ kind[p] = "incomingCall"
    /\ addParticipantToSession(p)
    /\ callsSet(1, participant[p])
    /\ last' = Event("incomingCall", p, callId[p], 200,
                     generateTransferBxml(participant[p].token, callId[p]),
                     participant[p])
    /\ Ends(p)
    /\ handedOut' = handedOut \cup {participant[p].token}
    /\ UNCHANGED <<outboundPhoneNumber, sessionId, sessions, inboundCalls,
                   outboundCalls, createCallRequests, deleteRequests, deletePending,
                   deleted, sessionCheckFailed, disconnected, forBrowser, clientVars>>

\* /incomingCall that requests the deletion of the participant it replaces.
IncomingCallTransfer_DeletesPrior(p) ==
    /\ Resumes(p, "addParticipantToSession")
    /\ kind[p] = "incomingCall"
    /\ addParticipantToSession(p)
    /\ callsSet(callId[p], participant[p])
    /\ IF calls[callId[p]] # NoParticipant
       THEN /\ deleteRequests' = [deleteRequests EXCEPT ![calls[callId[p]].id] = @ + 1]
            /\ deletePending' = deletePending \cup {calls[callId[p]].id}
       ELSE UNCHANGED <<deleteRequests, deletePending>>
    /\ last' = Event("incomingCall", p, callId[p], 200,
                     generateTransferBxml(participant[p].token, callId[p]),
                     participant[p])
    /\ Ends(p)
    /\ handedOut' = handedOut \cup {participant[p].token}
    /\ UNCHANGED <<outboundPhoneNumber, sessionId, sessions, inboundCalls,
                   outboundCalls, createCallRequests, deleted, sessionCheckFailed,
                   disconnected, forBrowser, clientVars>>

\* createParticipant returned to /incomingCall: the participant is registered
\* under the call id and the transfer markup is sent.
IncomingCallTransfer(p) ==
    /\ Resumes(p, "addParticipantToSession")
    /\ kind[p] = "incomingCall"
    /\ addParticipantToSession(p)
    /\ callsSet(callId[p], participant[p])
    /\ last' = Event("incomingCall", p, callId[p], 200,
                     generateTransferBxml(participant[p].token, callId[p]),
                     participant[p])
    /\ Ends(p)
    /\ handedOut' = handedOut \cup {participant[p].token}
    /\ UNCHANGED <<outboundPhoneNumber, sessionId, sessions, inboundCalls,
                   outboundCalls, createCallRequests, deleteRequests, deletePending,
                   deleted, sessionCheckFailed, disconnected, forBrowser, clientVars>>

\* GET /callPhone arrives: without an outbound number 400 is sent, and in
\* either case the handler goes on to createParticipant.
CallPhoneHandler(p) ==
    /\ Arrives(p)
    /\ kind' = [kind EXCEPT ![p] = "callPhone"]
    /\ IF ~outboundPhoneNumber
       THEN /\ responded' = [responded EXCEPT ![p] = TRUE]
            /\ last' = Event("callPhone", p, 0, 400, NoBody, NoParticipant)
       ELSE /\ responded' = responded
            /\ last' = NoEvent
    /\ createParticipant(p)
    /\ UNCHANGED <<outboundPhoneNumber, sessionId, calls, callId, participant, sid,
                   vendorVars, sessionCheckFailed, disconnected, handedOut, overwritten,
                   forBrowser, clientVars>>

\* createParticipant returned to /callPhone: callPhone asks the vendor to
\* originate the call.
CallPhoneCreateCall(p) ==
    /\ Resumes(p, "addParticipantToSession")
    /\ kind[p] = "callPhone"
    /\ addParticipantToSession(p)
    /\ createCallRequests' = createCallRequests + 1
    /\ pc' = [pc EXCEPT ![p] = "createCall"]
    /\ last' = NoEvent
    /\ UNCHANGED <<outboundPhoneNumber, sessionId, calls, kind, callId, participant,
                   sid, responded, sessions, inboundCalls, outboundCalls,
                   deleteRequests, deletePending, deleted, sessionCheckFailed,
                   disconnected, handedOut, overwritten, forBrowser, clientVars>>

\* The vendor originates the call to the outbound number and assigns it an
\* identifier; its response is on the way to the service.
VendorCreatesCall(p, c) ==
    /\ NoSyncPending
    /\ pc[p] = "createCall"
    /\ outboundPhoneNumber
    /\ c \notin inboundCalls \cup outboundCalls \cup disconnected
    /\ outboundCalls' = outboundCalls \cup {c}
    /\ callId' = [callId EXCEPT ![p] = c]
    /\ pc' = [pc EXCEPT ![p] = "createCallResponse"]
    /\ last' = NoEvent
    /\ UNCHANGED <<outboundPhoneNumber, sessionId, calls, kind, participant, sid,
                   responded, sessions, members, inboundCalls, createCallRequests,
                   deleteRequests, deletePending, deleted, sessionCheckFailed,
                   disconnected, handedOut, overwritten, forBrowser, clientVars>>

\* res.status(204).send() at the end of /callPhone: a response already sent
\* makes it throw, and the first response stands.
CallPhoneSend204(p) ==
    /\ last' = Event("callPhone", p, callId[p], IF responded[p] THEN 0 ELSE 204, NoBody,
                     participant[p])
    /\ Ends(p)

\* callPhone that forgets calls.set: /callPhone responds all the same.
CallPhoneRegister_NoEntry(p) ==
    /\ Resumes(p, "createCallResponse")
    /\ CallPhoneSend204(p)
    /\ UNCHANGED <<outboundPhoneNumber, sessionId, calls, vendorVars,
                   sessionCheckFailed, disconnected, handedOut, overwritten,
                   forBrowser, clientVars>>

\* createCall returned the call id: callPhone registers the participant under
\* it, and /callPhone responds.
CallPhoneRegister(p) ==
    /\ Resumes(p, "createCallResponse")
    /\ callsSet(callId[p], participant[p])
    /\ CallPhoneSend204(p)
    /\ UNCHANGED <<outboundPhoneNumber, sessionId, vendorVars, sessionCheckFailed,
                   disconnected, handedOut, forBrowser, clientVars>>

\* createCall failed (as it does when there is no number to call): callPhone
\* catches and logs the error, and /callPhone responds.
CallPhoneCreateCallFail(p) ==
    /\ Resumes(p, "createCall")
    /\ CallPhoneSend204(p)
    /\ UNCHANGED <<outboundPhoneNumber, sessionId, calls, vendorVars,
                   sessionCheckFailed, disconnected, handedOut, overwritten,
                   forBrowser, clientVars>>

\* /callAnswered that removes the entry it has answered with.
CallAnswered_Removes(c) ==
    /\ NoSyncPending
    /\ last' = IF calls[c] = NoParticipant
               THEN Event("callAnswered", 0, c, 400, NoBody, NoParticipant)
               ELSE Event("callAnswered", 0, c, 200,
                          SpeakAndTransferBxml(calls[c].token, c), calls[c])
    /\ handedOut' = IF calls[c] = NoParticipant THEN handedOut
                    ELSE handedOut \cup {calls[c].token}
    /\ calls' = [calls EXCEPT ![c] = NoParticipant]
    /\ UNCHANGED <<outboundPhoneNumber, sessionId, handlerVars, vendorVars,
                   sessionCheckFailed, disconnected, overwritten, forBrowser,
                   clientVars>>

\* /callAnswered without the guard on a missing entry: markup in every case.
CallAnswered_NoGuard(c) ==
    /\ NoSyncPending
    /\ last' = Event("callAnswered", 0, c, 200,
                     SpeakAndTransferBxml(calls[c].token, c), calls[c])
    /\ handedOut' = handedOut \cup {calls[c].token}
    /\ UNCHANGED <<outboundPhoneNumber, sessionId, calls, handlerVars, vendorVars,
                   sessionCheckFailed, disconnected, overwritten,
                   forBrowser, clientVars>>

\* /callAnswered that takes the participant of whichever call is registered.
CallAnswered_AnyEntry(c) ==
    /\ NoSyncPending
    /\ \E d \in CallIds :
          last' = IF calls[c] = NoParticipant
                  THEN Event("callAnswered", 0, c, 400, NoBody, NoParticipant)
                  ELSE Event("callAnswered", 0, c, 200,
                             SpeakAndTransferBxml(calls[d].token, c), calls[d])
    /\ handedOut' = handedOut \cup ({last'.body.token} \ {NoParticipant.token})
    /\ UNCHANGED <<outboundPhoneNumber, sessionId, calls, handlerVars, vendorVars,
                   sessionCheckFailed, disconnected, overwritten,
                   forBrowser, clientVars>>

\* POST /callAnswered for call c: 400 if the registry has no entry for c,
\* otherwise the markup that speaks and transfers with the entry's token.
CallAnswered(c) ==
    /\ NoSyncPending
    /\ last' = IF calls[c] = NoParticipant
               THEN Event("callAnswered", 0, c, 400, NoBody, NoParticipant)
               ELSE Event("callAnswered", 0, c, 200,
                          SpeakAndTransferBxml(calls[c].token, c), calls[c])
    /\ handedOut' = IF calls[c] = NoParticipant THEN handedOut
                    ELSE handedOut \cup {calls[c].token}
    /\ UNCHANGED <<outboundPhoneNumber, sessionId, calls, handlerVars, vendorVars,
                   sessionCheckFailed, disconnected, overwritten,
                   forBrowser, clientVars>>

\* /callStatus that does not acknowledge before it processes the event.
CallStatus_NoAck(c, e) ==
    /\ NoSyncPending
    /\ last' = [NoEvent EXCEPT !.kind = "callStatus", !.callId = c, !.eventType = e,
                               !.phase = "responded"]
    /\ UNCHANGED <<outboundPhoneNumber, sessionId, calls, handlerVars, vendorVars,
                   sessionCheckFailed, disconnected, handedOut, overwritten,
                   forBrowser, clientVars>>

\* POST /callStatus arrives for call c with event type e: 200 is sent first.
CallStatus(c, e) ==
    /\ NoSyncPending
    /\ last' = [NoEvent EXCEPT !.kind = "callStatus", !.callId = c, !.eventType = e,
                               !.status = 200, !.phase = "responded",
                               !.follows = /\ last.kind = "incomingCall"
                                           /\ last.status = 200
                                           /\ last.callId = c]
    /\ UNCHANGED <<outboundPhoneNumber, sessionId, calls, handlerVars, vendorVars,
                   sessionCheckFailed, disconnected, handedOut, overwritten,
                   forBrowser, clientVars>>

\* deleteParticipant that returns without sending the deletion request.
deleteParticipant_NotSent(id) ==
    UNCHANGED <<deleteRequests, deletePending>>

\* deleteParticipant up to its await: the deletion request is sent, and
\* nobody waits for its result.
deleteParticipant(id) ==
    /\ deleteRequests' = [deleteRequests EXCEPT ![id] = @ + 1]
    /\ deletePending' = deletePending \cup {id}

\* The rest of /callStatus that requests the deletion and leaves the entry.
CallStatusCleanup_KeepsEntry ==
    /\ last.phase = "responded"
    /\ IF last.eventType = "disconnect" /\ calls[last.callId] # NoParticipant
       THEN deleteParticipant(calls[last.callId].id)
       ELSE UNCHANGED <<deleteRequests, deletePending>>
    /\ disconnected' =
          IF last.eventType = "disconnect"
          THEN disconnected \cup ({last.callId} \cap (inboundCalls \cup outboundCalls))
          ELSE disconnected
    /\ last' = [last EXCEPT !.phase = "done",
                            !.participant = IF last.eventType = "disconnect"
                                            THEN calls[last.callId] ELSE NoParticipant]
    /\ UNCHANGED <<outboundPhoneNumber, sessionId, calls, handlerVars, sessions,
                   members, inboundCalls, outboundCalls, createCallRequests, deleted,
                   sessionCheckFailed, handedOut, overwritten, forBrowser, clientVars>>

\* The rest of /callStatus that cleans up on every event type.
CallStatusCleanup_AnyEvent ==
    /\ last.phase = "responded"
    /\ IF calls[last.callId] # NoParticipant
       THEN /\ deleteParticipant(calls[last.callId].id)
            /\ calls' = [calls EXCEPT ![last.callId] = NoParticipant]
       ELSE UNCHANGED <<deleteRequests, deletePending, calls>>
    /\ disconnected' =
          IF last.eventType = "disconnect"
          THEN disconnected \cup ({last.callId} \cap (inboundCalls \cup outboundCalls))
          ELSE disconnected
    /\ last' = [last EXCEPT !.phase = "done", !.participant = calls[last.callId]]
    /\ UNCHANGED <<outboundPhoneNumber, sessionId, handlerVars, sessions, members,
                   inboundCalls, outboundCalls, createCallRequests, deleted,
                   sessionCheckFailed, handedOut, overwritten, forBrowser, clientVars>>

\* The rest of /callStatus with calls.clear() for calls.delete(callId).
CallStatusCleanup_Clear ==
    /\ last.phase = "responded"
    /\ IF last.eventType = "disconnect" /\ calls[last.callId] # NoParticipant
       THEN /\ deleteParticipant(calls[last.callId].id)
            /\ calls' = [c \in CallIds |-> NoParticipant]
       ELSE UNCHANGED <<deleteRequests, deletePending, calls>>
    /\ disconnected' =
          IF last.eventType = "disconnect"
          THEN disconnected \cup ({last.callId} \cap (inboundCalls \cup outboundCalls))
          ELSE disconnected
    /\ last' = [last EXCEPT !.phase = "done",
                            !.participant = IF last.eventType = "disconnect"
                                            THEN calls[last.callId] ELSE NoParticipant]
    /\ UNCHANGED <<outboundPhoneNumber, sessionId, handlerVars, sessions, members,
                   inboundCalls, outboundCalls, createCallRequests, deleted,
                   sessionCheckFailed, handedOut, overwritten, forBrowser, clientVars>>

\* The rest of /callStatus, in the same synchronous run: on "disconnect" the
\* entry of the call is looked up, its participant's deletion is requested
\* and the entry is removed; anything else is logged.
CallStatusCleanup ==
    /\ last.phase = "responded"
    /\ IF last.eventType = "disconnect" /\ calls[last.callId] # NoParticipant
       THEN /\ deleteParticipant(calls[last.callId].id)
            /\ calls' = [calls EXCEPT ![last.callId] = NoParticipant]
       ELSE UNCHANGED <<deleteRequests, deletePending, calls>>
    /\ disconnected' =
          IF last.eventType = "disconnect"
          THEN disconnected \cup ({last.callId} \cap (inboundCalls \cup outboundCalls))
          ELSE disconnected
    /\ last' = [last EXCEPT !.phase = "done",
                            !.participant = IF last.eventType = "disconnect"
                                            THEN calls[last.callId] ELSE NoParticipant]
    /\ UNCHANGED <<outboundPhoneNumber, sessionId, handlerVars, sessions, members,
                   inboundCalls, outboundCalls, createCallRequests, deleted,
                   sessionCheckFailed, handedOut, overwritten, forBrowser, clientVars>>

\* The vendor deletes the participant.
DeleteParticipantOk(id) ==
    /\ NoSyncPending
    /\ id \in deletePending
    /\ deletePending' = deletePending \ {id}
    /\ deleted' = deleted \cup {id}
    /\ last' = NoEvent
    /\ UNCHANGED <<outboundPhoneNumber, sessionId, calls, handlerVars, sessions,
                   members, inboundCalls, outboundCalls, createCallRequests,
                   deleteRequests, sessionCheckFailed, disconnected, handedOut,
                   overwritten, forBrowser, clientVars>>

\* The deletion fails and the request is sent again.
DeleteParticipantFail_Retry(id) ==
    /\ NoSyncPending
    /\ id \in deletePending
    /\ deleteRequests' = [deleteRequests EXCEPT ![id] = @ + 1]
    /\ last' = NoEvent
    /\ UNCHANGED <<outboundPhoneNumber, sessionId, calls, handlerVars, sessions,
                   members, inboundCalls, outboundCalls, createCallRequests,
                   deletePending, deleted, sessionCheckFailed, disconnected,
                   handedOut, overwritten, forBrowser, clientVars>>

\* The deletion fails: the rejected promise is nobody's, nothing is retried.
DeleteParticipantFail(id) ==
    /\ NoSyncPending
    /\ id \in deletePending
    /\ deletePending' = deletePending \ {id}
    /\ last' = NoEvent
    /\ UNCHANGED <<outboundPhoneNumber, sessionId, calls, handlerVars, sessions,
                   members, inboundCalls, outboundCalls, createCallRequests,
                   deleteRequests, deleted, sessionCheckFailed, disconnected, handedOut,
                   overwritten, forBrowser, clientVars>>

\* req.body.eventType: "disconnect", or one of the other events of a call.
EventTypes == {"disconnect", "initiate"}

Next ==
    \/ \E p \in Reqs : ConnectionInfo(p)
    \/ \E p \in Reqs : ConnectionInfoSend(p)
    \/ \E p \in Reqs, c \in CallIds : IncomingCall(p, c)
    \/ \E p \in Reqs : IncomingCallTransfer(p)
    \/ \E p \in Reqs : CallPhoneHandler(p)
    \/ \E p \in Reqs : CallPhoneCreateCall(p)
    \/ \E p \in Reqs, c \in CallIds : VendorCreatesCall(p, c)
    \/ \E p \in Reqs : CallPhoneRegister(p)
    \/ \E p \in Reqs : CallPhoneCreateCallFail(p)
    \/ \E c \in CallIds : CallAnswered(c)
    \/ \E c \in CallIds, e \in EventTypes : CallStatus(c, e)
    \/ CallStatusCleanup
    \/ \E p \in Reqs : CreateParticipantOk(p)
    \/ \E p \in Reqs : CreateParticipantFail(p)
    \/ \E p \in Reqs : GetSessionOk(p)
    \/ \E p \in Reqs : GetSessionFail(p)
    \/ \E p \in Reqs : CreateSessionOk(p)
    \/ \E p \in Reqs : CreateSessionFail(p)
    \/ \E p \in Reqs : AddParticipantFail(p)
    \/ \E id \in ParticipantIds : DeleteParticipantOk(id)
    \/ \E id \in ParticipantIds : DeleteParticipantFail(id)

Spec == Init /\ [][Next]_vars

\* Browsers only: every request is a GET /connectionInfo, and no webhook of
\* the telephony platform arrives.
SessionNext ==
    \/ \E p \in Browsers : ConnectionInfo(p)
    \/ \E p \in Browsers : ConnectionInfoSend(p)
    \/ \E p \in Browsers : CreateParticipantOk(p)
    \/ \E p \in Browsers : CreateParticipantFail(p)
    \/ \E p \in Browsers : GetSessionOk(p)
    \/ \E p \in Browsers : GetSessionFail(p)
    \/ \E p \in Browsers : CreateSessionOk(p)
    \/ \E p \in Browsers : CreateSessionFail(p)
    \/ \E p \in Browsers : AddParticipantFail(p)

SessionSpec == Init /\ [][SessionNext]_vars

----------------------------------------------------------------------------
\* The browser (frontend/src/App.tsx:20-48)

\* App mounts: the first effect sends fetch("/connectionInfo"), which takes
\* the next request slot of the service, and the effect on [token] is due.
ClientMount(p) ==
    /\ fetchReq = 0
    /\ Arrives(p)
    /\ fetchReq' = p
    /\ effectPending' = TRUE
    /\ last' = NoEvent
    /\ UNCHANGED <<serverVars, clientToken, connectState, deviceToken, publishState>>

\* The response of /connectionInfo to the browser's request has come:
\* setToken(responseBody.token), and the effect on [token] is due again.
ClientSetToken ==
    /\ fetchReq # 0
    /\ last.kind = "connectionInfo" /\ last.req = fetchReq /\ last.status = 200
    /\ clientToken = NoParticipant.token
    /\ clientToken' = last.body.token
    /\ effectPending' = TRUE
    /\ last' = NoEvent
    /\ UNCHANGED <<serverVars, fetchReq, connectState, deviceToken, publishState>>

\* The effect on [token] that calls connect whether or not there is a token.
ClientTokenEffect_NoGuard ==
    /\ effectPending
    /\ effectPending' = FALSE
    /\ connectState' = "pending"
    /\ deviceToken' = clientToken
    /\ last' = NoEvent
    /\ UNCHANGED <<serverVars, fetchReq, clientToken, publishState>>

\* The effect on [token] runs: with a token, bandwidthRtc.connect is called
\* with it; without one nothing is done.
ClientTokenEffect ==
    /\ effectPending
    /\ effectPending' = FALSE
    /\ IF clientToken # NoParticipant.token
       THEN /\ connectState' = "pending"
            /\ deviceToken' = clientToken
       ELSE UNCHANGED <<connectState, deviceToken>>
    /\ last' = NoEvent
    /\ UNCHANGED <<serverVars, fetchReq, clientToken, publishState>>

\* connect resolved: its then-callback calls bandwidthRtc.publish.
ClientConnected ==
    /\ connectState = "pending"
    /\ connectState' = "connected"
    /\ publishState' = "pending"
    /\ last' = NoEvent
    /\ UNCHANGED <<serverVars, fetchReq, clientToken, effectPending, deviceToken>>

\* connect rejected: the then-callback does not run.
ClientConnectFail ==
    /\ connectState = "pending"
    /\ connectState' = "failed"
    /\ last' = NoEvent
    /\ UNCHANGED <<serverVars, fetchReq, clientToken, effectPending, deviceToken,
                   publishState>>

\* publish resolved, or rejected.
ClientPublished(ok) ==
    /\ publishState = "pending"
    /\ publishState' = IF ok THEN "published" ELSE "failed"
    /\ last' = NoEvent
    /\ UNCHANGED <<serverVars, fetchReq, clientToken, effectPending, connectState,
                   deviceToken>>

\* One browser running App next to the other browsers' requests.
ClientNext ==
    \/ SessionNext
    \/ \E p \in Browsers : ClientMount(p)
    \/ ClientSetToken
    \/ ClientTokenEffect
    \/ ClientConnected
    \/ ClientConnectFail
    \/ \E ok \in BOOLEAN : ClientPublished(ok)

ClientSpec == Init /\ [][ClientNext]_vars

----------------------------------------------------------------------------
\* Properties

\* The participant the vendor issued a token to.
ParticipantOfToken(token) ==
    CHOOSE i \in ParticipantIds \cup {NoParticipant.id} :
        \E k \in Procs \cup {0} : ParticipantInfo(k).id = i /\ ParticipantInfo(k).token = token

Registered(c) == calls[c] # NoParticipant

\* C1: when /connectionInfo sends its response, the participant of the token
\* in it has been added to the session whose id is cached at that moment.
C1_TokenInCachedSession ==
    (last.kind = "connectionInfo" /\ last.status = 200)
        => <<ParticipantOfToken(last.body.token), sessionId>> \in members

\* C2: as long as no validity check of a session has failed, the vendor has
\* created at most one session and every participant added to a session is
\* in that one.
C2_OneSession ==
    ~sessionCheckFailed
        => /\ Cardinality(sessions) <= 1
           /\ \A m1, m2 \in members : m1[2] = m2[2]

\* C3: when /incomingCall or callPhone has inserted a registry entry, its
\* participant has been created on the vendor platform and added to the
\* session whose id is cached.
C3_EntryInCurrentSession ==
    (/\ last.kind \in {"incomingCall", "callPhone"}
     /\ last.callId # 0
     /\ last.participant # NoParticipant
     /\ calls[last.callId] = last.participant)
        => /\ last.participant.id \in ParticipantIds
           /\ <<last.participant.id, sessionId>> \in members

\* C4: a call whose disconnect notification has been processed has no
\* registry entry, in any later state.
C4_NoEntryAfterDisconnect ==
    \A c \in disconnected : ~Registered(c)

\* C6: without an outbound number a /callPhone request has got its 400, has
\* no participant provisioned and has sent no call-origination request, and
\* the registry holds no entry of an outbound call.
C6_NoCallWithoutNumber ==
    ~outboundPhoneNumber
        => /\ \A p \in Procs :
                kind[p] = "callPhone"
                    => /\ responded[p]
                       /\ participant[p] = NoParticipant
                       /\ pc[p] \notin {"createCall", "createCallResponse"}
           /\ createCallRequests = 0
           /\ \A c \in outboundCalls : ~Registered(c)

\* The step is the synchronous rest of a /callStatus "disconnect" for call c.
DisconnectStep(c) ==
    /\ last.kind = "callStatus"
    /\ last.phase = "responded"
    /\ last.eventType = "disconnect"
    /\ last.callId = c

\* C5: a /callStatus disconnect for call c that directly follows the response
\* of /incomingCall for c leaves the registry without c and issues exactly
\* one deletion request, for the participant /incomingCall registered.
C5_IncomingThenDisconnect ==
    [][\A c \in CallIds :
          (DisconnectStep(c) /\ last.follows)
              => /\ Registered(c)
                 /\ ~Registered(c)'
                 /\ deleteRequests[calls[c].id] = 0
                 /\ deleteRequests' = [deleteRequests EXCEPT ![calls[c].id] = 1]
                 /\ calls[c].id \in deletePending']_vars

C5_Witness ==
    /\ last.kind = "callStatus" /\ last.phase = "done"
    /\ last.eventType = "disconnect" /\ last.follows
    /\ last.callId \in inboundCalls
    /\ ~Registered(last.callId)
    /\ deleteRequests[last.participant.id] = 1

\* C7: /callAnswered for a call without a registry entry sends 400 and no
\* markup, and changes neither the registry, the cached session, a handler
\* nor anything at the vendor.
C7_AnsweredUnknown ==
    [][\A c \in CallIds :
          (last' # last /\ last'.kind = "callAnswered" /\ last'.callId = c /\ ~Registered(c))
              => /\ last'.status = 400
                 /\ last'.body.markup = "none"
                 /\ last'.body.token = NoParticipant.token
                 /\ UNCHANGED <<calls, sessionId, handlerVars, vendorVars>>]_vars

\* An answered notification for a call whose entry a disconnect removed.
C7_Witness ==
    /\ last.kind = "callAnswered" /\ last.status = 400
    /\ last.callId \in disconnected
    /\ \E i \in ParticipantIds : deleteRequests[i] > 0
    /\ \E d \in CallIds : Registered(d)

\* C8: /callAnswered for a call with a registry entry sends markup that
\* transfers that call with the token of that entry, and leaves the registry
\* as it is.
C8_AnsweredTransfers ==
    [][\A c \in CallIds :
          (last' # last /\ last'.kind = "callAnswered" /\ last'.callId = c /\ Registered(c))
              => /\ last'.status = 200
                 /\ last'.body.markup = "speak+transfer"
                 /\ last'.body.callId = c
                 /\ last'.body.token = calls[c].token
                 /\ \A d \in CallIds : calls[d] # calls[c] => last'.body.token # calls[d].token
                 /\ calls' = calls]_vars

\* The answered call is registered next to another call's participant.
C8_Witness ==
    /\ last.kind = "callAnswered" /\ last.status = 200
    /\ Registered(last.callId)
    /\ last.body.token = calls[last.callId].token
    /\ \E d \in CallIds : d # last.callId /\ Registered(d)

\* C9: a /callStatus disconnect for a registered call removes that entry and
\* no other, requests the deletion of the participant stored in it and of no
\* other, and has responded 200.
C9_DisconnectRemoves ==
    [][\A c \in CallIds :
          (DisconnectStep(c) /\ Registered(c))
              => /\ calls' = [calls EXCEPT ![c] = NoParticipant]
                 /\ deleteRequests' = [deleteRequests EXCEPT ![calls[c].id] = @ + 1]
                 /\ deletePending' = deletePending \cup {calls[c].id}
                 /\ last'.status = 200
                 /\ last'.kind = "callStatus" /\ last'.phase = "done"]_vars

\* A disconnect removed one entry while another call stays registered.
C9_Witness ==
    /\ last.kind = "callStatus" /\ last.phase = "done"
    /\ last.eventType = "disconnect"
    /\ last.participant # NoParticipant
    /\ last.status = 200
    /\ ~Registered(last.callId)
    /\ \E d \in CallIds : Registered(d)

\* C10: /callStatus responds 200 whatever the event type and the call, and
\* has responded before it looks up or removes a registry entry or requests
\* a deletion: the step that responds does none of that, and every step that
\* removes an entry or requests a deletion is a /callStatus that has
\* responded 200.
C10_AckFirst ==
    [][/\ (last' # last /\ last'.kind = "callStatus")
            => /\ last'.status = 200
               /\ (last'.phase = "responded"
                     => UNCHANGED <<calls, deleteRequests, deletePending, disconnected>>)
       /\ ((\E c \in CallIds : Registered(c) /\ ~Registered(c)')
             \/ deleteRequests' # deleteRequests)
            => /\ last.kind = "callStatus" /\ last.phase = "responded"
               /\ last.status = 200]_vars

\* A disconnect for a call that has no entry was acknowledged all the same.
C10_Witness ==
    /\ last.kind = "callStatus" /\ last.phase = "done"
    /\ last.status = 200
    /\ last.eventType = "disconnect"
    /\ last.participant = NoParticipant
    /\ \E d \in CallIds : Registered(d)

\* The request of p is past session resolution.
Resolved(p) == pc[p] \in {"addParticipantToSession", "createCall", "createCallResponse", "done"}

\* C11: a provisioning whose validity check of the cached session failed
\* creates one new session, whose id overwrites the cache and differs from
\* the stale one; it asks for no other session afterwards, and the session
\* it adds its participant to is the new one.
C11_InvalidSessionReplaced ==
    [][\A p \in Procs :
          /\ (pc[p] = "createSession" /\ sid[p] # 0 /\ pc'[p] = "addParticipantToSession")
                => /\ sessionId' \notin sessions
                   /\ sessions' = sessions \cup {sessionId'}
                   /\ sessionId' # sid[p]
                   /\ sid'[p] = sessionId'
          /\ Resolved(p) => /\ Resolved(p)'
                            /\ pc'[p] # "done" => sid'[p] = sid[p]
          /\ (pc[p] = "addParticipantToSession" /\ pc'[p] # pc[p] /\ members' # members)
                => members' = members \cup {<<participant[p].id, sid[p]>>}]_vars

\* The second browser found the first one's session invalid, and got its
\* token once its participant was in the session created in its place.
C11_Witness ==
    /\ sessionCheckFailed
    /\ pc[NumBrowsers] = "idle"
    /\ Cardinality(sessions) = 2
    /\ last.kind = "connectionInfo" /\ last.status = 200
    /\ sessionId = last.req
    /\ <<last.participant.id, sessionId>> \in members
    /\ \A s \in sessions \ {sessionId} : <<last.participant.id, s>> \notin members

\* C12: when the validity check of the cached session succeeds, session
\* resolution creates no session, leaves the cache as it is, and returns
\* the id that is cached.
C12_ValidSessionReused ==
    [][\A p \in Procs :
          (pc[p] = "getSession" /\ pc'[p] = "addParticipantToSession")
              => /\ sessions' = sessions
                 /\ sessionId' = sessionId
                 /\ sid'[p] = sessionId]_vars

\* C13: no response carries a token that an earlier response has carried.
C13_TokenHandedOnce ==
    [][(last' # last /\ last'.status # 0 /\ last'.body.token # NoParticipant.token)
          => last'.body.token \notin handedOut]_vars

\* C14: with an outbound number and every vendor request succeeding,
\* /callPhone has its one participant added to a session and sends one
\* call-origination request; when the vendor returns the call id it
\* registers that participant under it and responds 204, whether or not a
\* webhook of the call has arrived; it sends no second request.
C14_CallPhoneRegisters ==
    [][\A p \in Procs :
          /\ (kind[p] = "callPhone" /\ pc[p] = "addParticipantToSession" /\ pc'[p] = "createCall")
                => /\ participant[p] # NoParticipant
                   /\ members' = members \cup {<<participant[p].id, sid[p]>>}
                   /\ createCallRequests' = createCallRequests + 1
                   /\ calls' = calls
          /\ (pc[p] \in {"createCall", "createCallResponse"} /\ pc'[p] # pc[p])
                => /\ pc'[p] \in {"createCallResponse", "done"}
                   /\ createCallRequests' = createCallRequests
                   /\ participant[p] # NoParticipant
          /\ (pc[p] = "createCallResponse" /\ NoSyncPending)
                => /\ outboundPhoneNumber
                   /\ ENABLED CallPhoneRegister(p)
          /\ (pc[p] = "createCallResponse" /\ pc'[p] = "done")
                => /\ callId[p] \in outboundCalls
                   /\ calls' = [calls EXCEPT ![callId[p]] = participant[p]]
                   /\ last'.kind = "callPhone" /\ last'.req = p
                   /\ last'.status = 204
                   /\ last'.callId = callId[p]]_vars

\* /callPhone has responded 204 with the participant registered, before any
\* answered or disconnect notification of the call was handled.
C14_Witness ==
    /\ outboundPhoneNumber
    /\ last.kind = "callPhone" /\ last.status = 204
    /\ last.callId \in outboundCalls
    /\ calls[last.callId] = last.participant
    /\ last.participant # NoParticipant
    /\ last.participant.token \notin handedOut
    /\ last.callId \notin disconnected
    /\ createCallRequests = 1

\* C15: a /callStatus whose event type is not "disconnect" changes neither
\* the registry nor the cached session id and requests no deletion, in the
\* step that responds and in the step that handles the event.
C15_OtherEventIgnored ==
    [][/\ (last' # last /\ last'.kind = "callStatus" /\ last'.eventType # "disconnect")
            => UNCHANGED <<calls, sessionId, deleteRequests, deletePending>>
       /\ (last.kind = "callStatus" /\ last.phase = "responded"
              /\ last.eventType # "disconnect")
            => /\ last'.kind = "callStatus" /\ last'.phase = "done"
               /\ UNCHANGED <<calls, sessionId, deleteRequests, deletePending>>]_vars

\* Another event of a registered call was handled: the entry is still there
\* and no deletion was requested.
C15_Witness ==
    /\ last.kind = "callStatus" /\ last.phase = "done"
    /\ last.eventType # "disconnect"
    /\ Registered(last.callId)
    /\ deleteRequests[calls[last.callId].id] = 0
    /\ sessionId # 0

\* C16: a disconnect for a registered call removes the entry while the
\* deletion it requested is still unanswered; the vendor's answer, success
\* or failure, neither changes the registry nor sends a request; a deletion
\* is requested by nothing but a disconnect for a registered call, and a
\* disconnect for a call that has no entry requests none.
C16_RemovedWhateverDeletionDoes ==
    [][/\ \A c \in CallIds :
            (DisconnectStep(c) /\ Registered(c))
                => /\ ~Registered(c)'
                   /\ calls[c].id \in deletePending'
       /\ (deletePending \ deletePending' # {})
            => /\ UNCHANGED <<calls, deleteRequests>>
               /\ deletePending' \subseteq deletePending
       /\ (deleteRequests' # deleteRequests)
            => \E c \in CallIds : DisconnectStep(c) /\ Registered(c)
       /\ \A c \in CallIds :
            (DisconnectStep(c) /\ ~Registered(c))
                => UNCHANGED <<calls, deleteRequests, deletePending>>]_vars

\* The deletion of the only call's participant has failed, and a second
\* disconnect for that call found no entry and requested nothing.
C16_Witness ==
    /\ last.kind = "callStatus" /\ last.phase = "done"
    /\ last.eventType = "disconnect"
    /\ last.participant = NoParticipant
    /\ inboundCalls \cup outboundCalls = {last.callId}
    /\ ~Registered(last.callId)
    /\ deletePending = {} /\ deleted = {}
    /\ \E i \in ParticipantIds :
          /\ deleteRequests[i] = 1
          /\ \A j \in ParticipantIds \ {i} : deleteRequests[j] = 0

\* C17: every session the vendor creates is written to the cache in the
\* step that receives it, so the cache holds the id written last; and the
\* cache only ever takes the id of a session created in that step, so an id
\* that was overwritten is never cached again.
C17_LastWriterWins ==
    [][/\ (sessions' # sessions)
            => /\ sessionId' \notin sessions
               /\ sessions' = sessions \cup {sessionId'}
       /\ (sessionId' # sessionId)
            => /\ sessionId' \notin sessions
               /\ sessionId' \in sessions']_vars

\* Two requests found nothing cached and each created a session; the one
\* that is not cached has a participant in it.
C17_Witness ==
    /\ ~sessionCheckFailed
    /\ Cardinality(sessions) = 2
    /\ sessionId \in sessions
    /\ \E m \in members : m[2] \in sessions \ {sessionId}

\* C18: whatever other requests are in flight, /incomingCall registers
\* under its own call id the participant provisioned for it and responds
\* with that participant's token; a step of a request changes no entry of
\* another call, and no two calls are registered with the same participant.
C18_IncomingCallsDisjoint ==
    [][/\ \A p \in Procs :
            /\ (kind[p] = "incomingCall" /\ pc[p] = "addParticipantToSession"
                   /\ pc'[p] = "done" /\ last'.status = 200)
                  => /\ participant[p] = ParticipantInfo(p)
                     /\ calls' = [calls EXCEPT ![callId[p]] = participant[p]]
                     /\ last'.body.token = participant[p].token
                     /\ last'.body.callId = callId[p]
            /\ (pc'[p] # pc[p])
                  => \A c \in CallIds \ {callId[p]} : calls'[c] = calls[c]
       /\ \A c, d \in CallIds :
            (c # d /\ Registered(c) /\ Registered(d)) => calls[c] # calls[d]]_vars

\* Two /incomingCall for different calls overlapped, the one that arrived
\* first responding last: each call is registered with its own request's
\* participant, and each token was sent.
C18_Witness ==
    /\ last.kind = "incomingCall" /\ last.status = 200 /\ last.req = 1
    /\ calls[last.callId] = ParticipantInfo(1)
    /\ last.body.token = ParticipantInfo(1).token
    /\ \E d \in inboundCalls \ {last.callId} : calls[d] = ParticipantInfo(2)
    /\ {ParticipantInfo(1).token, ParticipantInfo(2).token} \subseteq handedOut
    /\ outboundCalls = {}

\* C19: an /incomingCall for a call that has an entry already replaces the
\* entry with its own participant and requests no deletion; a disconnect
\* requests the deletion of the participant the entry holds then and of no
\* other; and a participant whose entry was replaced is in no entry again,
\* has no deletion requested and is not deleted.
C19_DuplicateLeaksPrior ==
    [][/\ \A p \in Procs :
            (kind[p] = "incomingCall" /\ pc[p] = "addParticipantToSession"
               /\ pc'[p] = "done" /\ last'.status = 200 /\ Registered(callId[p]))
                => /\ calls'[callId[p]] = participant[p]
                   /\ calls[callId[p]] # participant[p]
                   /\ calls[callId[p]].id \in overwritten'
                   /\ UNCHANGED <<deleteRequests, deletePending>>
       /\ \A c \in CallIds :
            (DisconnectStep(c) /\ Registered(c))
                => /\ calls[c].id \notin overwritten
                   /\ deleteRequests' = [deleteRequests EXCEPT ![calls[c].id] = @ + 1]
       /\ \A i \in overwritten :
            /\ deleteRequests[i] = 0
            /\ i \notin deleted
            /\ \A c \in CallIds : calls[c].id # i]_vars

\* After a duplicate /incomingCall, the disconnect of the call had the
\* deletion of the newer participant requested and not that of the first.
C19_Witness ==
    /\ last.kind = "callStatus" /\ last.phase = "done"
    /\ last.eventType = "disconnect"
    /\ last.participant # NoParticipant
    /\ last.participant.id \notin overwritten
    /\ deleteRequests[last.participant.id] = 1
    /\ overwritten # {}
    /\ \A i \in overwritten : deleteRequests[i] = 0
    /\ inboundCalls = {last.callId}
    /\ \A c \in CallIds : ~Registered(c)

\* C20: when createParticipant, createSession or addParticipantToSession
\* fails, the handler ends there: it sends no token and no markup, inserts
\* no registry entry, sends the vendor nothing more (no retry, no deletion
\* of the participant it created), and takes no further step.
C20_ProvisioningFailurePropagates ==
    [][\A p \in Procs :
          /\ (pc[p] \in {"createParticipant", "createSession", "addParticipantToSession"}
                 /\ pc'[p] = "done" /\ last'.status = 0)
                => /\ last'.req = p
                   /\ last'.body = NoBody
                   /\ UNCHANGED <<calls, sessionId, handedOut, vendorVars>>
          /\ pc[p] = "done" => pc'[p] = "done"]_vars

\* /incomingCall failed after its participant was created: the participant
\* is in no session and in no entry, its token was not sent and its deletion
\* was not requested.
C20_Witness ==
    /\ last.kind = "incomingCall" /\ last.status = 0
    /\ last.participant # NoParticipant
    /\ last.body = NoBody
    /\ ~Registered(last.callId)
    /\ last.participant.token \notin handedOut
    /\ \A m \in members : m[1] # last.participant.id
    /\ deleteRequests[last.participant.id] = 0

\* C21: the browser has called connect only with a token set, the one the
\* response of /connectionInfo to its own request carried, and has called
\* publish only with the connection established.
C21_ClientOrder ==
    /\ connectState # "none"
          => /\ clientToken # NoParticipant.token
             /\ deviceToken = clientToken
             /\ fetchReq # 0
             /\ clientToken = ParticipantInfo(fetchReq).token
             /\ clientToken \in handedOut
    /\ publishState # "none" => connectState = "connected"

\* The browser publishes its microphone over a connection made with the
\* token of its own request.
C21_Witness ==
    /\ publishState = "published"
    /\ connectState = "connected"
    /\ fetchReq # 0
    /\ deviceToken = ParticipantInfo(fetchReq).token

\* C22: however the disconnect notifications interleave and repeat, no
\* participant has more than one deletion requested, and a disconnect for
\* a call without an entry requests none.
C22_OneDeletionPerParticipant ==
    [][/\ \A i \in ParticipantIds : deleteRequests'[i] <= 1
       /\ \A c \in CallIds :
            (DisconnectStep(c) /\ ~Registered(c)) => deleteRequests' = deleteRequests]_vars

\* The disconnect of the only call came twice, the second time while the
\* deletion the first had requested was unanswered: one request was sent.
C22_Witness ==
    /\ last.kind = "callStatus" /\ last.phase = "done"
    /\ last.eventType = "disconnect"
    /\ last.participant = NoParticipant
    /\ inboundCalls \cup outboundCalls = {last.callId}
    /\ \E i \in deletePending :
          /\ deleteRequests[i] = 1
          /\ \A j \in ParticipantIds \ {i} : deleteRequests[j] = 0

\* C23: when the call-origination request of /callPhone fails, the handler
\* responds 204, inserts no registry entry and requests no deletion, and the
\* participant it provisioned is in no entry.
C23_CreateCallFailureCaught ==
    [][\A p \in Procs :
          (pc[p] = "createCall" /\ pc'[p] = "done")
              => /\ last'.kind = "callPhone" /\ last'.req = p
                 /\ last'.status = 204
                 /\ calls' = calls
                 /\ UNCHANGED <<deleteRequests, deletePending>>
                 /\ \A c \in CallIds : calls'[c] # participant[p]]_vars

\* C24: /callAnswered for a call the vendor originated for /callPhone, and
\* whose disconnect has not been handled, finds the entry of the call and
\* responds with the markup that transfers it.
C24_AnsweredFindsEntry ==
    [][\A c \in outboundCalls \ disconnected :
          (last' # last /\ last'.kind = "callAnswered" /\ last'.callId = c)
              => /\ Registered(c)
                 /\ last'.status = 200
                 /\ last'.body.markup = "speak+transfer"]_vars

\* C25: the registry changes only when /incomingCall or callPhone inserts
\* the participant of its own request under its call id, or when a
\* /callStatus disconnect removes the entry of its call; a step of
\* /connectionInfo or /callAnswered leaves it as it is; and a participant
\* created for /connectionInfo is in no entry and has no deletion requested.
C25_RegistryWriters ==
    [][/\ (calls' # calls)
            => \/ \E p \in Procs :
                    /\ kind[p] \in {"incomingCall", "callPhone"}
                    /\ pc[p] # "done" /\ pc'[p] = "done"
                    /\ calls' = [calls EXCEPT ![callId[p]] = participant[p]]
               \/ \E c \in CallIds :
                    /\ DisconnectStep(c)
                    /\ calls' = [calls EXCEPT ![c] = NoParticipant]
       /\ (last' # last /\ last'.kind \in {"connectionInfo", "callAnswered"})
            => calls' = calls
       /\ \A p \in Procs :
            (kind[p] = "connectionInfo" /\ pc'[p] # pc[p]) => calls' = calls
       /\ \A i \in forBrowser :
            /\ \A c \in CallIds : calls[c].id # i
            /\ deleteRequests[i] = 0
            /\ i \notin deletePending \cup deleted]_vars

\* A browser's participant is in a session; the outbound call of the other
\* request was answered and then disconnected, which removed its entry and
\* had its participant's deletion requested, and not the browser's.
C25_Witness ==
    /\ \E i \in forBrowser :
          /\ \E m \in members : m[1] = i
          /\ deleteRequests[i] = 0
          /\ \A c \in CallIds : calls[c].id # i
    /\ last.kind = "callStatus" /\ last.phase = "done"
    /\ last.eventType = "disconnect"
    /\ last.callId \in outboundCalls
    /\ last.participant # NoParticipant
    /\ last.participant.id \notin forBrowser
    /\ last.participant.token \in handedOut
    /\ deleteRequests[last.participant.id] = 1

====
